---- MODULE Spec2Model ----
(***************************************************************************)
(* Model of app.py: a personal finance tracker.  DatabaseManager keeps two *)
(* SQLite tables (transacciones, categorias); FinanceApp has one handler   *)
(* per button: registrar_transaccion, mostrar_historial, mostrar_grafico,  *)
(* mostrar_marca_pro and mostrar_proyeccion.                               *)
(*                                                                         *)
(* Amounts (monto REAL) are modelled as integers of currency units, a      *)
(* fecha 'YYYY-MM-DD HH:MM:SS' as the number of seconds it denotes (the    *)
(* order of the numbers is the order of the TEXT column) on a scale of     *)
(* SegundosPorDia seconds a day, and the accented default category         *)
(* "Alimentación" is written "Alimentacion".  The phrase random.choice     *)
(* picks for the balance window is left out: it reaches no other output.   *)
(***************************************************************************)
EXTENDS Integers, Sequences, FiniteSets, TLC

\* ---- bounds of the model ----
MaxTx == 2
MaxReloj == 2
SegundosPorDia == 2

\* ---- program constants ----
DiasProyeccion == 30

VARIABLES transacciones, categorias, reloj, salida

vars == <<transacciones, categorias, reloj, salida>>

\* ---- what the user can put in the form ----
\* tipo_var is an editable Combobox: the two listed values or free text.
TiposEntrada == {"Ingreso", "Gasto", "Otro"}
\* categoria_var is an editable Combobox, initially empty.
CategoriasEntrada == {"", "Otros"}
\* The text of the Monto entry: a number, or text that is no number (empty).
MontosEntrada ==
    {[ok |-> FALSE, val |-> 0]} \cup {[ok |-> TRUE, val |-> v] : v \in -1 .. 2}
\* descripcion_var is free text; it reaches no computation, one value stands for all.
DescripcionesEntrada == {"nota"}

\* ---- SUM(...) of SQL and Series.sum() of pandas: the sum of f over S ----
RECURSIVE SumSet(_, _)
SumSet(S, f) ==
    IF S = {} THEN 0
    ELSE LET x == CHOOSE y \in S : TRUE IN f[x] + SumSet(S \ {x}, f)

\* ---- DatabaseManager.init_db ----
CategoriasIniciales == <<"Alimentacion", "Transporte", "Ocio", "Otros">>

\* Mutant of InsertOrIgnore: a plain INSERT that does not look for the name.
InsertSinIgnorar(cats, nombre) ==
    Append(cats, [id |-> Len(cats) + 1, nombre |-> nombre])

\* INSERT OR IGNORE INTO categorias (nombre): nombre is UNIQUE.
InsertOrIgnore(cats, nombre) ==
    IF \E i \in 1 .. Len(cats) : cats[i].nombre = nombre
    THEN cats
    ELSE Append(cats, [id |-> Len(cats) + 1, nombre |-> nombre])

RECURSIVE ExecuteMany(_, _)
ExecuteMany(cats, nombres) ==
    IF nombres = <<>> THEN cats
    ELSE ExecuteMany(InsertOrIgnore(cats, Head(nombres)), Tail(nombres))

init_db(cats) == ExecuteMany(cats, CategoriasIniciales)

\* Mutant of insert_transaction: the new row takes the place of the last one.
insert_reemplaza(trans, ahora, tipo, categoria, monto, descripcion) ==
    LET fila == [id |-> Len(trans) + 1, fecha |-> ahora, tipo |-> tipo,
                 categoria |-> categoria, monto |-> monto,
                 descripcion |-> descripcion]
    IN IF trans = <<>> THEN <<fila>>
       ELSE [trans EXCEPT ![Len(trans)] = [fila EXCEPT !.id = Len(trans)]]

\* ---- DatabaseManager.insert_transaction ----
insert_transaction(trans, ahora, tipo, categoria, monto, descripcion) ==
    Append(trans, [id |-> Len(trans) + 1, fecha |-> ahora, tipo |-> tipo,
                   categoria |-> categoria, monto |-> monto,
                   descripcion |-> descripcion])

\* ---- DatabaseManager.get_transactions ----
\* The TEXT order of two fecha values.
FechaMenor(a, b) == a < b

\* SELECT fecha, tipo, categoria, monto, descripcion (the id is not selected).
Fila(t) == [fecha |-> t.fecha, tipo |-> t.tipo, categoria |-> t.categoria,
            monto |-> t.monto, descripcion |-> t.descripcion]

\* ORDER BY fecha DESC: every order of the rows in which no row precedes a
\* row of a greater fecha; rows of equal fecha come in an order SQL leaves open.
OrdenesFechaDesc(trans) ==
    {p \in [1 .. Len(trans) -> 1 .. Len(trans)] :
        /\ \A i, j \in 1 .. Len(trans) : i # j => p[i] # p[j]
        /\ \A i, j \in 1 .. Len(trans) :
              i < j => ~FechaMenor(trans[p[i]].fecha, trans[p[j]].fecha)}

get_transactions(trans) ==
    {[i \in 1 .. Len(trans) |-> Fila(trans[p[i]])] : p \in OrdenesFechaDesc(trans)}

\* ---- SELECT tipo, SUM(monto) as total FROM transacciones GROUP BY tipo ----
\* The place of a tipo under SQLite's BINARY collation of the strings.
TipoClave(t) == CASE t = "Gasto" -> 1 [] t = "Ingreso" -> 2 [] OTHER -> 3

RECURSIVE TiposAsc(_)
TiposAsc(S) ==
    IF S = {} THEN <<>>
    ELSE LET m == CHOOSE x \in S : \A y \in S : TipoClave(x) <= TipoClave(y)
         IN <<m>> \o TiposAsc(S \ {m})

SumMonto(trans, I) == SumSet(I, [i \in I |-> trans[i].monto])

\* One row per tipo that has a transaction, in the order of the grouping sort.
SumByTipo(trans) ==
    LET orden == TiposAsc({trans[i].tipo : i \in 1 .. Len(trans)})
    IN [k \in 1 .. Len(orden) |->
          [tipo |-> orden[k],
           total |-> SumMonto(trans, {i \in 1 .. Len(trans) : trans[i].tipo = orden[k]})]]

\* ---- the result of a handler, as the user sees it ----
Salida(op) ==
    [op |-> op, aviso |-> "", ventana |-> FALSE, excepcion |-> FALSE,
     filas |-> <<>>, barras |-> <<>>, balance |-> 0, color |-> "",
     calificacion |-> "",
     promedio |-> [num |-> 0, den |-> 1], proyeccion |-> [num |-> 0, den |-> 1]]

\* ---- FinanceApp.mostrar_grafico ----
Colores == <<"green", "red">>

\* ax.bar(..., color=["green", "red"]): the colours go to the bars by
\* position and are cycled when there are more bars than colours.
Barras(datos) ==
    [k \in 1 .. Len(datos) |->
        [tipo |-> datos[k].tipo, total |-> datos[k].total,
         color |-> Colores[((k - 1) % Len(Colores)) + 1]]]

\* ---- FinanceApp.mostrar_marca_pro ----
\* datos.loc[datos["tipo"] == tipo, "total"].sum() if not datos.empty else 0
TotalDe(datos, tipo) ==
    IF datos # <<>>
    THEN LET I == {k \in 1 .. Len(datos) : datos[k].tipo = tipo}
         IN SumSet(I, [k \in I |-> datos[k].total])
    ELSE 0

\* Mutant of Balance: every row that is not an income counts as an expense.
BalanceResto(datos) ==
    LET I == {k \in 1 .. Len(datos) : datos[k].tipo # "Ingreso"}
    IN TotalDe(datos, "Ingreso") - SumSet(I, [k \in I |-> datos[k].total])

Balance(datos) == TotalDe(datos, "Ingreso") - TotalDe(datos, "Gasto")

\* Mutant of Calificar: the boundary at zero falls to the positive side.
CalificarSinNeutro(balance) ==
    IF balance >= 0 THEN [calificacion |-> "Excelente", color |-> "green"]
    ELSE [calificacion |-> "Cuidado", color |-> "red"]

Calificar(balance) ==
    IF balance > 0 THEN [calificacion |-> "Excelente", color |-> "green"]
    ELSE IF balance = 0 THEN [calificacion |-> "Equilibrado", color |-> "blue"]
    ELSE [calificacion |-> "Cuidado", color |-> "red"]

\* ---- FinanceApp.mostrar_proyeccion ----
\* Mutant of SelectGastos: the query without its WHERE clause.
SelectTodos(trans) ==
    [k \in 1 .. Len(trans) |->
        [fecha |-> trans[k].fecha, tipo |-> trans[k].tipo, monto |-> trans[k].monto]]

\* SELECT fecha, tipo, monto FROM transacciones WHERE tipo = 'Gasto'
SelectGastos(trans) ==
    LET g == SelectSeq(trans, LAMBDA t : t.tipo = "Gasto")
    IN [k \in 1 .. Len(g) |->
          [fecha |-> g[k].fecha, tipo |-> g[k].tipo, monto |-> g[k].monto]]

\* pd.to_datetime(fecha).dt.date: the calendar date, the time of day dropped.
Date(fecha) == fecha \div SegundosPorDia

\* datos.groupby(datos["fecha"].dt.date)["monto"].sum()
SumaPorFecha(datos) ==
    LET dias == {Date(datos[k].fecha) : k \in 1 .. Len(datos)}
    IN [d \in dias |->
          LET I == {k \in 1 .. Len(datos) : Date(datos[k].fecha) = d}
          IN SumSet(I, [k \in I |-> datos[k].monto])]

\* Series.mean(): the sum of the entries over their number, as a fraction.
Mean(serie) ==
    [num |-> SumSet(DOMAIN serie, serie), den |-> Cardinality(DOMAIN serie)]

\* Mutant of PromedioDiario: the mean of the rows, without grouping by date.
PromedioPorFila(datos) ==
    [num |-> SumSet(1 .. Len(datos), [k \in 1 .. Len(datos) |-> datos[k].monto]),
     den |-> Len(datos)]

PromedioDiario(datos) == Mean(SumaPorFecha(datos))

Proyeccion(promedio) ==
    [num |-> promedio.num * DiasProyeccion, den |-> promedio.den]

\* ---- state machine ----
Init ==
    /\ transacciones = <<>>
    /\ categorias = init_db(<<>>)
    /\ reloj = 0
    /\ salida = Salida("inicio")

\* The wall clock read by datetime('now', 'localtime').
SiguienteSegundo ==
    /\ reloj < MaxReloj
    /\ reloj' = reloj + 1
    /\ UNCHANGED <<transacciones, categorias, salida>>

\* The program is closed and started again on the same database file.
Reiniciar ==
    /\ categorias' = init_db(categorias)
    /\ salida' = Salida("inicio")
    /\ UNCHANGED <<transacciones, reloj>>

RegistrarTransaccion(tipo, categoria, m, descripcion) ==
    \/ \* monto_var.get() raises TclError: the handler ends at line 121
       /\ ~m.ok
       /\ salida' = [Salida("registrar") EXCEPT !.excepcion = TRUE]
       /\ UNCHANGED <<transacciones, categorias, reloj>>
    \/ /\ m.ok
       /\ categoria = "" \/ m.val = 0
       /\ salida' = [Salida("registrar") EXCEPT !.aviso = "Error"]
       /\ UNCHANGED <<transacciones, categorias, reloj>>
    \/ /\ m.ok
       /\ ~(categoria = "" \/ m.val = 0)
       /\ Len(transacciones) < MaxTx
       /\ transacciones' =
             insert_transaction(transacciones, reloj, tipo, categoria, m.val, descripcion)
       /\ salida' = [Salida("registrar") EXCEPT !.aviso = "Exito"]
       /\ UNCHANGED <<categorias, reloj>>

Registrar ==
    \E tipo \in TiposEntrada, categoria \in CategoriasEntrada,
       m \in MontosEntrada, descripcion \in DescripcionesEntrada :
        RegistrarTransaccion(tipo, categoria, m, descripcion)

MostrarHistorial ==
    /\ \E historial \in get_transactions(transacciones) :
          salida' = [Salida("historial") EXCEPT !.ventana = TRUE, !.filas = historial]
    /\ UNCHANGED <<transacciones, categorias, reloj>>

MostrarGrafico ==
    /\ LET datos == SumByTipo(transacciones)
       IN IF datos = <<>>
          THEN salida' = [Salida("grafico") EXCEPT !.aviso = "Sin datos"]
          ELSE salida' = [Salida("grafico") EXCEPT !.ventana = TRUE,
                                                   !.barras = Barras(datos)]
    /\ UNCHANGED <<transacciones, categorias, reloj>>

MostrarMarcaPro ==
    /\ LET datos == SumByTipo(transacciones)
           balance == Balance(datos)
       IN salida' = [Salida("balance") EXCEPT
                        !.ventana = TRUE, !.balance = balance,
                        !.color = Calificar(balance).color,
                        !.calificacion = Calificar(balance).calificacion]
    /\ UNCHANGED <<transacciones, categorias, reloj>>

MostrarProyeccion ==
    /\ LET datos == SelectGastos(transacciones)
       IN IF datos = <<>>
          THEN salida' = [Salida("proyeccion") EXCEPT !.aviso = "Sin datos"]
          ELSE salida' = [Salida("proyeccion") EXCEPT
                             !.ventana = TRUE,
                             !.promedio = PromedioDiario(datos),
                             !.proyeccion = Proyeccion(PromedioDiario(datos))]
    /\ UNCHANGED <<transacciones, categorias, reloj>>

Next ==
    \/ SiguienteSegundo
    \/ Reiniciar
    \/ Registrar
    \/ MostrarHistorial
    \/ MostrarGrafico
    \/ MostrarMarcaPro
    \/ MostrarProyeccion

Spec == Init /\ [][Next]_vars

\* ---- properties ----
RECURSIVE SumaDeTipo(_, _)
SumaDeTipo(trans, tipo) ==
    IF trans = <<>> THEN 0
    ELSE (IF Head(trans).tipo = tipo THEN Head(trans).monto ELSE 0)
         + SumaDeTipo(Tail(trans), tipo)

HayTipo(tipo) == \E i \in 1 .. Len(transacciones) : transacciones[i].tipo = tipo

DiasConGasto ==
    {transacciones[i].fecha \div SegundosPorDia :
        i \in {j \in 1 .. Len(transacciones) : transacciones[j].tipo = "Gasto"}}

Vistas == {"historial", "grafico", "balance", "proyeccion"}

SinMontoNegativo ==
    \A i \in 1 .. Len(transacciones) : transacciones[i].monto > 0

\* C1: the balance shown by the balance view is the sum of the amounts of the
\* stored "Ingreso" transactions minus the sum of the amounts of the stored
\* "Gasto" transactions; a kind without transactions counts 0 and the empty
\* store gives 0.
C1_BalanceIngresosMenosGastos ==
    salida.op = "balance" =>
        salida.balance = SumaDeTipo(transacciones, "Ingreso")
                         - SumaDeTipo(transacciones, "Gasto")

\* C1 witness: the balance view after an income of 2 and an expense of 1.
C1_Witness ==
    /\ salida.op = "balance"
    /\ Len(transacciones) >= 2
    /\ transacciones[1].tipo = "Ingreso" /\ transacciones[1].monto = 2
    /\ transacciones[2].tipo = "Gasto" /\ transacciones[2].monto = 1
    /\ salida.balance = 1

\* C2: the classification is a total three-way function of the balance with the
\* boundary at exactly zero: above 0 green and encouraging, equal to 0 blue and
\* break-even, below 0 red and warning; exactly one of the three.
C2_CalificacionTresVias ==
    salida.op = "balance" =>
        /\ salida.balance > 0 =>
              salida.color = "green" /\ salida.calificacion = "Excelente"
        /\ salida.balance = 0 =>
              salida.color = "blue" /\ salida.calificacion = "Equilibrado"
        /\ salida.balance < 0 =>
              salida.color = "red" /\ salida.calificacion = "Cuidado"

\* C2 witness: the balance view of a store whose incomes equal its expenses.
C2_Witness ==
    /\ salida.op = "balance"
    /\ salida.balance = 0
    /\ HayTipo("Ingreso") /\ HayTipo("Gasto")

\* C3: a register with the category or the amount omitted shows the error
\* notice and writes nothing; a register with both supplied writes exactly one
\* transaction carrying the entered kind, category, amount and note.
C3_RegistroValidado ==
    [][\A tipo \in TiposEntrada, categoria \in CategoriasEntrada,
          m \in MontosEntrada, descripcion \in DescripcionesEntrada :
          RegistrarTransaccion(tipo, categoria, m, descripcion) =>
              IF categoria = "" \/ ~m.ok \/ m.val = 0
              THEN salida'.aviso = "Error" /\ transacciones' = transacciones
              ELSE /\ Len(transacciones') = Len(transacciones) + 1
                   /\ SubSeq(transacciones', 1, Len(transacciones)) = transacciones
                   /\ LET t == transacciones'[Len(transacciones')]
                      IN /\ t.tipo = tipo /\ t.categoria = categoria
                         /\ t.monto = m.val /\ t.descripcion = descripcion]_vars

\* C4: a report without relevant rows gives the "no data" notice and nothing
\* else: the chart of an empty store draws nothing, the projection of a store
\* without "Gasto" rows computes no average; with a relevant row the chart and
\* the projection are computed, the average over at least one date.
C4_SinDatos ==
    /\ salida.op = "grafico" =>
          IF Len(transacciones) = 0
          THEN salida.aviso = "Sin datos" /\ ~salida.ventana /\ salida.barras = <<>>
          ELSE salida.aviso = "" /\ salida.ventana /\ salida.barras # <<>>
    /\ salida.op = "proyeccion" =>
          IF ~HayTipo("Gasto")
          THEN salida.aviso = "Sin datos" /\ ~salida.ventana
          ELSE salida.aviso = "" /\ salida.ventana /\ salida.promedio.den >= 1

\* C4 witness: the projection is refused although incomes are stored.
C4_Witness ==
    /\ salida.op = "proyeccion"
    /\ salida.aviso = "Sin datos"
    /\ HayTipo("Ingreso")

\* C5: the daily average of the projection view is the total of the "Gasto"
\* amounts divided by the number of distinct dates having a "Gasto" row, and
\* the projection is that average times 30.
C5_PromedioPorDiasConGasto ==
    (salida.op = "proyeccion" /\ salida.ventana) =>
        /\ salida.promedio.num * Cardinality(DiasConGasto)
              = SumaDeTipo(transacciones, "Gasto") * salida.promedio.den
        /\ salida.proyeccion.num * salida.promedio.den
              = 30 * salida.promedio.num * salida.proyeccion.den

\* C5 witness: two expenses of 1 and 2 at different times of one day: the
\* average is 3 over one date, the projection 90.
C5_Witness ==
    /\ salida.op = "proyeccion"
    /\ Len(transacciones) = 2
    /\ \A i \in 1 .. 2 : transacciones[i].tipo = "Gasto"
    /\ transacciones[1].fecha # transacciones[2].fecha
    /\ Cardinality(DiasConGasto) = 1
    /\ transacciones[1].monto = 1 /\ transacciones[2].monto = 2
    /\ salida.promedio.num = 3 * salida.promedio.den
    /\ salida.proyeccion.num = 90 * salida.proyeccion.den

\* C6: the history lists every transaction once, and of any two the one
\* inserted later comes first, also when both carry the same timestamp
\* (stated for stores of positive amounts only, so that nothing rests on C7).
C6_RecienteAntes ==
    (salida.op = "historial" /\ SinMontoNegativo) =>
        salida.filas =
            [i \in 1 .. Len(transacciones) |->
                Fila(transacciones[Len(transacciones) - i + 1])]

\* C7: every stored transaction has an amount that is not below zero.
C7_MontoNoNegativo ==
    \A i \in 1 .. Len(transacciones) : transacciones[i].monto >= 0

\* C8: after any number of initializations the category table holds each of
\* the four default names exactly once, no two rows share a name, and one more
\* initialization leaves the table as it is.
C8_SemillaIdempotente ==
    /\ \A k \in 1 .. Len(CategoriasIniciales) :
          Cardinality({i \in 1 .. Len(categorias) :
                          categorias[i].nombre = CategoriasIniciales[k]}) = 1
    /\ \A i, j \in 1 .. Len(categorias) :
          i # j => categorias[i].nombre # categorias[j].nombre
    /\ init_db(categorias) = categorias

\* C8 witness: the program was started again after a transaction was stored.
C8_Witness ==
    /\ salida.op = "inicio"
    /\ Len(transacciones) > 0
    /\ Len(categorias) = Len(CategoriasIniciales)

\* C9: the log is append-only: a stored transaction keeps its fields and its
\* place, the four views and a rejected register change nothing, and a
\* successful register adds exactly one transaction.
C9_SoloAgrega ==
    [][/\ Len(transacciones') >= Len(transacciones)
       /\ SubSeq(transacciones', 1, Len(transacciones)) = transacciones
       /\ salida'.op \in Vistas => transacciones' = transacciones
       /\ (salida'.op = "registrar" /\ salida'.aviso # "Exito") =>
              transacciones' = transacciones
       /\ transacciones' # transacciones =>
              /\ Len(transacciones') = Len(transacciones) + 1
              /\ salida'.op = "registrar" /\ salida'.aviso = "Exito"]_vars

\* C9 witness: a register was rejected while transactions were stored.
C9_Witness ==
    /\ salida.op = "registrar"
    /\ salida.aviso = "Error"
    /\ Len(transacciones) >= 2

\* C10: in the chart the bar of "Ingreso" is green and the bar of "Gasto" is
\* red, with both kinds stored and with one kind stored (stated for stores of
\* positive amounts only, so that nothing rests on C7).
C10_ColoresPorTipo ==
    (salida.op = "grafico" /\ SinMontoNegativo) =>
        \A k \in 1 .. Len(salida.barras) :
            /\ salida.barras[k].tipo = "Ingreso" => salida.barras[k].color = "green"
            /\ salida.barras[k].tipo = "Gasto" => salida.barras[k].color = "red"

====
